---- MODULE Spec2Model ----
(***************************************************************************)
(* A model of the POI cache (src/services/placesCache.ts) and of the       *)
(* Places query client and aggregator (src/services/placesAPIService.ts).  *)
(*                                                                         *)
(* The module holds several specifications over one set of variables; each *)
(* one moves only the variables of the component it models and leaves the  *)
(* others at their initial value:                                          *)
(*   SpecDedup    deduplicatedFetch and the in-flight registry             *)
(*   SpecMem      the memory tier: getMemoryCache, setMemoryCache,         *)
(*                clearMemoryCache                                         *)
(*   SpecDurable  the durable tier: getLocalStorageCache,                  *)
(*                setLocalStorageCache, clearLocalStorageCache over a      *)
(*                localStorage shared with the conversation history        *)
(*   SpecSearch   nearbySearch: the five zone requests of one call         *)
(*   SpecIntel    getLocationIntelligence: its category queries            *)
(*   SpecClassify competitionLevel and marketGap as functions of counts,   *)
(*                and the headline of the recommendation                   *)
(*   SpecScore    the three scorers applied to bounded inputs              *)
(*   SpecKeys     buildCacheKey and buildWardKey on a grid of coordinates  *)
(*   SpecApp      the App component: overlapping performAnalysis calls     *)
(*                                                                         *)
(* Date.now() is the variable now, a count of clock ticks: any number of   *)
(* operations can run within one tick, as they can within one millisecond. *)
(* The capacities and lifetimes of the source (50 and 30 entries, 15       *)
(* minutes and 24 hours) are instantiated at small values; the code under  *)
(* them is modelled as written and does not depend on the values.          *)
(***************************************************************************)
EXTENDS Integers, Sequences, FiniteSets, TLC

VARIABLES
    inFlight,     \* placesCache.ts:194  Map key -> promise (0: no entry)
    promises,     \* the promises the factories returned, by identity (index)
    jobs,         \* the microtask queue: promises whose finally-reaction is queued
    calls,        \* history: one record per deduplicatedFetch call
    now,          \* Date.now()
    memoryCache,  \* placesCache.ts:62  Map, as its entries in insertion order
    memOp,        \* the last memory-tier operation and what it found and did
    storage,          \* localStorage: key -> stored string (Null: no such key)
    storageDisabled,  \* localStorage is unavailable: every access to it throws
    durOp,            \* the last durable-tier operation and what it found and did
    originDist,   \* metres from the query centre to (0,0), the fallback location
    search,       \* the nearbySearch call in progress: its zone requests
    requests,     \* provider requests (fetch calls) issued, per search arguments
    completed,    \* nearbySearch calls that have returned, per search arguments
    intelCall,    \* the getLocationIntelligence call: its queries and its outcome
    classified,   \* counts of a report and the labels computed from them
    scored,       \* the input of a scorer and the scores computed from it
    keyed,        \* search parameters and the cache keys built from them
    app           \* the App component: its analyses and what it displays

vars == <<inFlight, promises, jobs, calls, now, memoryCache, memOp,
          storage, storageDisabled, durOp,
          originDist, search, requests, completed, intelCall,
          classified, scored, keyed, app>>

----------------------------------------------------------------------------
(* Bounds of the model *)

\* number of distinct request keys
NumKeys == 2
\* number of deduplicatedFetch calls in one behaviour
MaxCalls == 3

\* the clock runs from 0 to MaxTime
MaxTime == 3
\* placesCache.ts:56 MEMORY_MAX_ENTRIES (50 in the source)
MEMORY_MAX_ENTRIES == 2
\* placesCache.ts:54 MEMORY_TTL_MS (15 minutes in the source), in ticks
MEMORY_TTL_MS == 2

\* placesCache.ts:57 LOCALSTORAGE_MAX_ENTRIES (30 in the source)
LOCALSTORAGE_MAX_ENTRIES == 2
\* placesCache.ts:55 LOCALSTORAGE_TTL_MS (24 hours in the source), in ticks
LOCALSTORAGE_TTL_MS == 2

\* nearbySearch calls in one behaviour of SpecSearch
MaxSearches == 2

\* the largest of the small counts of places SpecScore scores
MaxPois == 1

\* the largest coordinate SpecKeys builds keys for, in CoordUnit
MaxCoord == 16

\* the selections (and analyses) in one behaviour of SpecApp
MaxAnalyses == 4

\* the largest counts SpecClassify classifies
MaxGyms == 12
MaxCorporates == 6
MaxApartments == 6

Keys == 1..NumKeys
NoPromise == 0
\* one key more than the memory tier holds
MemKeys == 1..(MEMORY_MAX_ENTRIES + 1)
\* the value a caller stores for a key at time t: the result it fetched for
\* that key at that time (distinct keys and times give distinct values, none
\* of them null)
Payload(key, t) == 10 * key + t
\* null: the result of a cache miss
Miss == 0
NoKey == 0
\* no entry: what Map.get returns for a key the Map does not hold
NoEntry == [key |-> NoKey, data |-> Miss, expiresAt |-> 0, lastAccessed |-> 0]

----------------------------------------------------------------------------
(* deduplicatedFetch -- placesCache.ts:194-209 *)

dedupVars == <<inFlight, promises, jobs, calls>>

\* the state of the variables a specification does not move
IdleDedup ==
    /\ inFlight = [k \in Keys |-> NoPromise]
    /\ promises = <<>>
    /\ jobs = <<>>
    /\ calls = <<>>

IdleMem ==
    /\ now = 0
    /\ memoryCache = <<>>
    /\ memOp = [op |-> "none", key |-> NoKey, at |-> 0, size |-> 0,
                found |-> NoEntry, result |-> Miss]

memVars == <<now, memoryCache, memOp>>

\* one ward key more than the durable tier holds
WardKeys == 1..(LOCALSTORAGE_MAX_ENTRIES + 1)
\* conversationService.ts:37 STORAGE_KEY, a key of localStorage that does not
\* start with LS_PREFIX
ConversationKey == 0
StorageKeys == WardKeys \cup {ConversationKey}
\* localStorage.getItem of a key that is not stored
Null == <<>>

\* null where an AggregatedIntel is expected: what a durable miss returns
NullIntel == [gyms |-> -1, apartments |-> -1, marketGap |-> "null"]

IdleDurable ==
    /\ storage = [k \in StorageKeys |-> Null]
    /\ storageDisabled = FALSE
    /\ durOp = [op |-> "none", key |-> NoKey, at |-> 0, wrote |-> FALSE,
                result |-> NullIntel, follows |-> -1, removed |-> {}]

durVars == <<storage, storageDisabled, durOp>>

\* the provider queries of getLocationIntelligence, placesAPIService.ts:864-908,
\* named by what they search for
Queries == {"gym", "corporate_office", "coworking_space", "cafe", "metro", "bus",
            "apartment", "vibe_active", "vibe_entertainment"}
\* the zones of one nearbySearch, lines 624-630: the centre and four quadrants
Zones == 1..5
\* radiusMeters, the default of line 858
RadiusMeters == 1000
\* maxResultCount of a zone request, line 595
MaxResultCount == 20

NoSearch == [status |-> "idle", args |-> "gym", zones |-> [z \in Zones |-> "pending"],
             result |-> [ok |-> TRUE, places |-> <<>>]]
NoReport == [status |-> "none"]

IdleApi ==
    /\ originDist = 0
    /\ search = NoSearch
    /\ requests = [q \in Queries |-> 0]
    /\ completed = [q \in Queries |-> 0]
    /\ intelCall = [status |-> "idle", outcome |-> [q \in Queries |-> "unissued"],
                report |-> NoReport]

apiVars == <<originDist, search, requests, completed, intelCall>>

\* the scores argument of generateDataDrivenRecommendation left out
Omitted == [given |-> FALSE, competitorRatio |-> 0]
NoLabels == [gyms |-> 0, corporates |-> 0, apartments |-> 0,
             competitionLevel |-> "none", marketGap |-> "none",
             scores |-> Omitted, headline |-> "none"]
NoScores == [demographicLoad |-> -1, connectivity |-> -1, competitorRatio |-> -1,
             infrastructure |-> -1, total |-> -1]
NoKeys == [lat |-> 0, lng |-> 0, radiusMeters |-> 0, placeTypes |-> {},
           cacheKey |-> <<>>, wardKey |-> <<>>]

IdleCalc ==
    /\ classified = NoLabels
    /\ scored = [scorer |-> "none", input |-> <<>>, result |-> NoScores]
    /\ keyed = NoKeys

calcVars == <<classified, scored, keyed>>

\* the App before a position is selected, part_001:454-461 and 511-520
NoAnalysis == 0
IdleApp ==
    app = [selected |-> NoAnalysis, started |-> 0, outstanding |-> {},
           isAnalyzing |-> FALSE,
           scores |-> [of |-> NoAnalysis, kind |-> "null"],
           realPOIs |-> NoAnalysis,
           aiInsight |-> [of |-> NoAnalysis, kind |-> "empty"]]

appVars == <<app>>

InitDedup ==
    /\ IdleMem
    /\ IdleDurable
    /\ IdleApi
    /\ IdleCalc
    /\ IdleApp
    /\ inFlight = [k \in Keys |-> NoPromise]
    /\ promises = <<>>
    /\ jobs = <<>>
    /\ calls = <<>>

\* the promises that are pending
Pending == {p \in 1..Len(promises) : promises[p].state = "pending"}

\* the promises whose finalizer has run
Finalized == {p \in 1..Len(promises) : promises[p].finalized}

\* inFlight.has(key), line 201: a bug that never finds the entry
InFlightHasNever(key) == FALSE

\* inFlight.has(key), line 201
InFlightHas(key) == inFlight[key] # NoPromise

\* deduplicatedFetch(key, fetchFn), lines 200-209. On a registry hit the
\* registered promise is returned as it is (line 203); otherwise the factory is
\* invoked (line 205), its promise is registered (line 206) and the finalizer
\* is attached as the promise's first reaction (line 207).
DeduplicatedFetch(key) ==
    /\ Len(calls) < MaxCalls
    /\ IF InFlightHas(key)
       THEN /\ calls' = Append(calls, [key |-> key, promise |-> inFlight[key],
                                       invoked |-> FALSE, pendingAtCall |-> Pending,
                                       finalizedAtCall |-> Finalized])
            /\ UNCHANGED <<inFlight, promises>>
       ELSE LET p == Len(promises) + 1 IN
            /\ promises' = Append(promises, [key |-> key, state |-> "pending",
                                             finalized |-> FALSE])
            /\ inFlight' = [inFlight EXCEPT ![key] = p]
            /\ calls' = Append(calls, [key |-> key, promise |-> p,
                                       invoked |-> TRUE, pendingAtCall |-> Pending,
                                       finalizedAtCall |-> Finalized])
    /\ UNCHANGED jobs
    /\ UNCHANGED memVars
    /\ UNCHANGED apiVars
    /\ UNCHANGED durVars
    /\ UNCHANGED <<calcVars, appVars>>

\* promise.finally(...), line 207, had it been promise.then(...): the callback
\* is a reaction to fulfilment only
ReactsToFulfilOnly(outcome) == outcome = "fulfilled"

\* promise.finally(...), line 207: the callback is a reaction to either outcome
ReactsTo(outcome) == outcome \in {"fulfilled", "rejected"}

\* The fetch of promise p settles. Settlement queues the promise's reactions
\* as microtasks; the finalizer is the first reaction of p (line 207 runs
\* before the promise is handed to any caller).
Settle(p, outcome) ==
    /\ p \in Pending
    /\ promises' = [promises EXCEPT ![p].state = outcome]
    /\ jobs' = IF ReactsTo(outcome) THEN Append(jobs, p) ELSE jobs
    /\ UNCHANGED <<inFlight, calls>>
    /\ UNCHANGED memVars
    /\ UNCHANGED apiVars
    /\ UNCHANGED durVars
    /\ UNCHANGED <<calcVars, appVars>>

\* The finalizer of the promise at the head of the microtask queue runs:
\* () => inFlight.delete(key), line 207.
RunFinalizer ==
    /\ jobs # <<>>
    /\ LET p == Head(jobs) IN
       /\ inFlight' = [inFlight EXCEPT ![promises[p].key] = NoPromise]
       /\ promises' = [promises EXCEPT ![p].finalized = TRUE]
    /\ jobs' = Tail(jobs)
    /\ UNCHANGED calls
    /\ UNCHANGED memVars
    /\ UNCHANGED apiVars
    /\ UNCHANGED durVars
    /\ UNCHANGED <<calcVars, appVars>>

NextDedup ==
    \/ \E key \in Keys : DeduplicatedFetch(key)
    \/ \E p \in 1..Len(promises), outcome \in {"fulfilled", "rejected"} : Settle(p, outcome)
    \/ RunFinalizer

SpecDedup == InitDedup /\ [][NextDedup]_vars

\* C1: when deduplicatedFetch is called again with the same key while the
\* promise an earlier call received is still pending, the later call does not
\* invoke the factory and receives that same promise; the promise every such
\* caller holds was produced by exactly one factory invocation.
C1_InFlightDedup ==
    /\ \A i, j \in 1..Len(calls) :
           (i < j /\ calls[i].key = calls[j].key
                  /\ calls[i].promise \in calls[j].pendingAtCall)
           => (calls[j].promise = calls[i].promise /\ ~calls[j].invoked)
    /\ \A p \in 1..Len(promises) :
           Cardinality({i \in 1..Len(calls) :
                          calls[i].promise = p /\ calls[i].invoked}) = 1

\* C1 witness: two calls with the same key, the second issued while the
\* promise of the first was pending, and that promise has since rejected.
C1_Witness ==
    \E i, j \in 1..Len(calls) :
        /\ i < j /\ calls[i].key = calls[j].key
        /\ calls[i].promise \in calls[j].pendingAtCall
        /\ promises[calls[i].promise].state = "rejected"

\* C2 as stated: once a key's fetch has settled the registry serves it no
\* more: every call is served a promise that the call itself created or that
\* was still pending when the call was issued (a call issued after the
\* settlement finds no entry and invokes the factory again).
C2_Original ==
    \A j \in 1..Len(calls) :
        calls[j].invoked \/ calls[j].promise \in calls[j].pendingAtCall

\* C2 amended: the entry is removed by the finalizer, which is queued as a
\* reaction to the settlement on fulfilment and on rejection alike. A settled
\* promise is either finalized or has its finalizer queued; once the finalizer
\* has run the registry holds no entry for the promise, and every call issued
\* after that invokes the factory again.
C2_FinalizerCleansUp ==
    /\ \A p \in 1..Len(promises) :
           /\ (promises[p].state # "pending" /\ ~promises[p].finalized)
                  => \E n \in 1..Len(jobs) : jobs[n] = p
           /\ promises[p].finalized => inFlight[promises[p].key] # p
    /\ \A j \in 1..Len(calls) :
           \A p \in calls[j].finalizedAtCall :
               promises[p].key = calls[j].key
                  => (calls[j].promise # p /\ (calls[j].invoked \/ calls[j].promise > p))

\* C2 witness: a fetch rejected, its finalizer ran, and a later call with the
\* same key invoked the factory again.
C2_Witness ==
    \E j \in 1..Len(calls) : \E p \in calls[j].finalizedAtCall :
        /\ promises[p].key = calls[j].key
        /\ promises[p].state = "rejected"
        /\ calls[j].invoked
        /\ inFlight[calls[j].key] = calls[j].promise

----------------------------------------------------------------------------
(* The memory tier -- placesCache.ts:60-120 *)

\* the clock advances
Tick ==
    /\ now < MaxTime
    /\ now' = now + 1
    /\ UNCHANGED <<memoryCache, memOp>>
    /\ UNCHANGED dedupVars
    /\ UNCHANGED apiVars
    /\ UNCHANGED durVars
    /\ UNCHANGED <<calcVars, appVars>>

\* the position of key in the Map, 0 when the Map has no entry for it
MemIndex(cache, key) ==
    IF \E i \in 1..Len(cache) : cache[i].key = key
    THEN CHOOSE i \in 1..Len(cache) : cache[i].key = key
    ELSE 0

MemKeysOf(cache) == {cache[i].key : i \in 1..Len(cache)}

\* Map.delete(key)
MemDelete(cache, key) == SelectSeq(cache, LAMBDA e : e.key # key)

\* Map.set(key, entry): an existing key keeps its place in the iteration
\* order, a new key goes last
MemSet(cache, entry) ==
    IF MemIndex(cache, entry.key) # 0
    THEN [cache EXCEPT ![MemIndex(cache, entry.key)] = entry]
    ELSE Append(cache, entry)

\* the loop of evictMemoryIfNeeded, lines 85-90: oldest is the position of the
\* first entry with the strictly smallest lastAccessed (0: null)
RECURSIVE OldestFrom(_, _, _)
OldestFrom(cache, i, oldest) ==
    IF i > Len(cache) THEN oldest
    ELSE OldestFrom(cache, i + 1,
            IF oldest = 0 \/ cache[i].lastAccessed < cache[oldest].lastAccessed
            THEN i ELSE oldest)

\* line 84 with <= for <: nothing is evicted until the Map is over the cap
EvictMemoryIfOver(cache) ==
    IF Len(cache) <= MEMORY_MAX_ENTRIES THEN cache
    ELSE LET oldest == OldestFrom(cache, 1, 0) IN
         IF oldest # 0 THEN MemDelete(cache, cache[oldest].key) ELSE cache

\* evictMemoryIfNeeded(), lines 83-92
EvictMemoryIfNeeded(cache) ==
    IF Len(cache) < MEMORY_MAX_ENTRIES THEN cache
    ELSE LET oldest == OldestFrom(cache, 1, 0) IN
         IF oldest # 0 THEN MemDelete(cache, cache[oldest].key) ELSE cache

\* line 98 with >= for >: an entry is dropped at the instant it expires
ExpiredAtOrAfter(entry, t) == t >= entry.expiresAt

\* Date.now() > entry.expiresAt, line 98
Expired(entry, t) == t > entry.expiresAt

\* a hit that also renews the entry's lifetime
TouchSliding(entry, t) ==
    [entry EXCEPT !.lastAccessed = t, !.expiresAt = t + MEMORY_TTL_MS]

\* entry.lastAccessed = Date.now(), line 102
Touch(entry, t) == [entry EXCEPT !.lastAccessed = t]

\* the entry of key, NoEntry when the Map has none
MemEntry(cache, key) ==
    IF MemIndex(cache, key) # 0 THEN cache[MemIndex(cache, key)] ELSE NoEntry

\* getMemoryCache(key), lines 95-105
GetMemoryCache(key) ==
    LET entry == MemEntry(memoryCache, key)
        result == IF entry = NoEntry \/ Expired(entry, now) THEN Miss ELSE entry.data
    IN
    /\ memoryCache' =
          IF entry = NoEntry THEN memoryCache
          ELSE IF Expired(entry, now) THEN MemDelete(memoryCache, key)
          ELSE [memoryCache EXCEPT ![MemIndex(memoryCache, key)] = Touch(entry, now)]
    /\ memOp' = [op |-> "get", key |-> key, at |-> now,
                 size |-> Len(memoryCache),
                 found |-> entry, result |-> result]
    /\ UNCHANGED now
    /\ UNCHANGED dedupVars
    /\ UNCHANGED apiVars
    /\ UNCHANGED durVars
    /\ UNCHANGED <<calcVars, appVars>>

\* setMemoryCache(key, data), lines 108-115
SetMemoryCache(key, data) ==
    /\ memoryCache' = MemSet(EvictMemoryIfNeeded(memoryCache),
                             [key |-> key, data |-> data,
                              expiresAt |-> now + MEMORY_TTL_MS,
                              lastAccessed |-> now])
    /\ memOp' = [op |-> "set", key |-> key, at |-> now,
                 size |-> Len(memoryCache),
                 found |-> MemEntry(memoryCache, key), result |-> data]
    /\ UNCHANGED now
    /\ UNCHANGED dedupVars
    /\ UNCHANGED apiVars
    /\ UNCHANGED durVars
    /\ UNCHANGED <<calcVars, appVars>>

\* clearMemoryCache(), lines 118-120
ClearMemoryCache ==
    /\ memoryCache' = <<>>
    /\ memOp' = [op |-> "clear", key |-> NoKey, at |-> now,
                 size |-> Len(memoryCache),
                 found |-> NoEntry, result |-> Miss]
    /\ UNCHANGED now
    /\ UNCHANGED dedupVars
    /\ UNCHANGED apiVars
    /\ UNCHANGED durVars
    /\ UNCHANGED <<calcVars, appVars>>

InitMem == IdleDedup /\ IdleMem /\ IdleDurable /\ IdleApi /\ IdleCalc /\ IdleApp

NextMem ==
    \/ Tick
    \/ \E key \in MemKeys : GetMemoryCache(key)
    \/ \E key \in MemKeys : SetMemoryCache(key, Payload(key, now))
    \/ ClearMemoryCache

SpecMem == InitMem /\ [][NextMem]_vars

\* a step of getMemoryCache: the only steps that leave the clock alone and
\* end with memOp naming the operation are the steps of that operation
GetStep == memOp'.op = "get" /\ now' = now
SetStep == memOp'.op = "set" /\ now' = now

\* C4 as stated: getMemoryCache returns the cached value if and only if an
\* entry for the key is present and now < expiresAt.
C4_Original ==
    [][GetStep =>
        LET entry == MemEntry(memoryCache, memOp'.key) IN
        (memOp'.result # Miss) <=> (entry # NoEntry /\ now < entry.expiresAt)]_vars

\* C4 amended: getMemoryCache returns the cached value if and only if an
\* entry for the key is present and now <= expiresAt, and a miss otherwise; an
\* entry found expired (now > expiresAt) is removed by the read; a hit sets the
\* entry's lastAccessed to now and leaves its data and expiresAt as they were.
C4_GetMemory ==
    [][GetStep =>
        LET entry == MemEntry(memoryCache, memOp'.key)
            after == MemEntry(memoryCache', memOp'.key)
        IN
        /\ (entry # NoEntry /\ now <= entry.expiresAt)
              => /\ memOp'.result = entry.data
                 /\ after = [entry EXCEPT !.lastAccessed = now]
        /\ ~(entry # NoEntry /\ now <= entry.expiresAt)
              => /\ memOp'.result = Miss
                 /\ after = NoEntry]_vars

\* C4 witness: a read at the very instant now = expiresAt, which is a hit.
C4_Witness ==
    /\ memOp.op = "get"
    /\ memOp.found # NoEntry
    /\ memOp.at = memOp.found.expiresAt
    /\ memOp.result = memOp.found.data

\* C5 as stated: a setMemoryCache of a new key into a full cache evicts
\* exactly one entry, one with the oldest lastAccessed, and an entry that the
\* operation just before it read with a hit survives (it is the most recently
\* accessed one; the cache holds at least two entries).
C5_Original ==
    [][(/\ SetStep
        /\ Len(memoryCache) = MEMORY_MAX_ENTRIES
        /\ memOp'.key \notin MemKeysOf(memoryCache))
       => LET evicted == MemKeysOf(memoryCache) \ MemKeysOf(memoryCache') IN
          /\ Cardinality(evicted) = 1
          /\ \A k \in evicted : \A i \in 1..Len(memoryCache) :
                 MemEntry(memoryCache, k).lastAccessed <= memoryCache[i].lastAccessed
          /\ (memOp.op = "get" /\ memOp.result # Miss /\ MEMORY_MAX_ENTRIES >= 2)
                 => memOp.key \notin evicted]_vars

----------------------------------------------------------------------------
(* The durable tier -- placesCache.ts:122-190 *)

\* A stored string is modelled as its sequence of JSON tokens: "{", then
\* name and value in turn, then "}".

\* the AggregatedIntel a caller stores for a ward key at time t
Intel(key, t) == [gyms |-> key, apartments |-> t,
                  marketGap |-> IF key = 1 THEN "UNTAPPED" ELSE "SATURATED"]

\* JSON.stringify of an AggregatedIntel
IntelStringify(data) ==
    <<"{", "gyms", data.gyms, "apartments", data.apartments,
      "marketGap", data.marketGap, "}">>

\* JSON.stringify(entry), line 179, of entry = {data, expiresAt}
JSONStringify(entry) ==
    <<"{", "data", IntelStringify(entry.data), "expiresAt", entry.expiresAt, "}">>

\* the text is a JSON object: braces around name-value pairs
IsObjectText(raw) ==
    /\ Len(raw) >= 2
    /\ raw[1] = "{"
    /\ raw[Len(raw)] = "}"
    /\ Len(raw) % 2 = 0

HasField(raw, name) == \E i \in 1..((Len(raw) - 2) \div 2) : raw[2 * i] = name

FieldOf(raw, name) ==
    raw[2 * (CHOOSE i \in 1..((Len(raw) - 2) \div 2) : raw[2 * i] = name) + 1]

\* JSON.parse of the text of an AggregatedIntel
IntelParse(raw) ==
    [gyms |-> FieldOf(raw, "gyms"), apartments |-> FieldOf(raw, "apartments"),
     marketGap |-> FieldOf(raw, "marketGap")]

\* JSON.parse(raw), lines 144 and 159: it throws on a text that is no JSON
\* (ok is FALSE); a field the object lacks reads as undefined
JSONParse(raw) ==
    IF ~IsObjectText(raw)
    THEN [ok |-> FALSE, hasData |-> FALSE, data |-> NullIntel,
          hasExpiresAt |-> FALSE, expiresAt |-> 0]
    ELSE [ok |-> TRUE,
          hasData |-> HasField(raw, "data"),
          data |-> IF HasField(raw, "data") THEN IntelParse(FieldOf(raw, "data")) ELSE NullIntel,
          hasExpiresAt |-> HasField(raw, "expiresAt"),
          expiresAt |-> IF HasField(raw, "expiresAt") THEN FieldOf(raw, "expiresAt") ELSE 0]

\* a stored text cut short: JSON.parse throws on it
Garbage == <<"{", "data">>
\* a stored object without expiresAt
WithoutExpiresAt == <<"{", "data", IntelStringify(Intel(1, 0)), "}">>

\* a test that every key of the application passes
HasPrefixOfApp(k) == k \in StorageKeys

\* k.startsWith(LS_PREFIX), line 128
HasPrefix(k) == k \in WardKeys

\* getLocalStorageKeys(), lines 124-131
GetLocalStorageKeys(store) == {k \in StorageKeys : store[k] # Null /\ HasPrefix(k)}

\* the entries the loop of evictLocalStorageIfNeeded compares, lines 140-150:
\* those that parse and whose expiresAt compares below Infinity
Comparable(store) ==
    {k \in GetLocalStorageKeys(store) :
        JSONParse(store[k]).ok /\ JSONParse(store[k]).hasExpiresAt}

\* what evictLocalStorageIfNeeded() may remove, lines 133-152: nothing (NoKey)
\* below the capacity or when no entry compares; otherwise the entry with the
\* earliest expiresAt, among equals the first in the order of localStorage.key,
\* an order the storage chooses
Victims(store) ==
    IF Cardinality(GetLocalStorageKeys(store)) < LOCALSTORAGE_MAX_ENTRIES
       \/ Comparable(store) = {}
    THEN {NoKey}
    ELSE LET expiry == [k \in Comparable(store) |-> JSONParse(store[k]).expiresAt] IN
         {k \in DOMAIN expiry : \A j \in DOMAIN expiry : expiry[k] <= expiry[j]}

\* localStorage.removeItem(key)
RemoveItem(store, key) ==
    IF key = NoKey THEN store ELSE [store EXCEPT ![key] = Null]

\* line 160 with >= for >
DurableExpiredAtOrAfter(entry, t) == entry.hasExpiresAt /\ t >= entry.expiresAt

\* Date.now() > entry.expiresAt, line 160; false when expiresAt is undefined
DurableExpired(entry, t) == entry.hasExpiresAt /\ t > entry.expiresAt

\* the time of the write a read follows: the operation just before the read
\* was a setLocalStorageCache of the same key that stored its entry (-1: none)
Follows(op, key) ==
    IF op.op = "set" /\ op.key = key /\ op.wrote THEN op.at ELSE -1

\* getLocalStorageCache(wardKey), lines 155-169. Every path that throws (the
\* storage is unavailable, JSON.parse fails) ends in the catch, which returns
\* null and leaves the storage as it is.
GetLocalStorageCache(key) ==
    LET raw == storage[key]
        entry == JSONParse(raw)
        threw == storageDisabled \/ (raw # Null /\ ~entry.ok)
        expired == ~threw /\ raw # Null /\ DurableExpired(entry, now)
        result == IF threw \/ raw = Null \/ expired THEN NullIntel ELSE entry.data
    IN
    /\ storage' = IF expired THEN RemoveItem(storage, key) ELSE storage
    /\ durOp' = [op |-> "get", key |-> key, at |-> now, wrote |-> FALSE,
                 result |-> result, follows |-> Follows(durOp, key),
                 removed |-> IF expired THEN {key} ELSE {}]
    /\ UNCHANGED <<now, memoryCache, memOp, storageDisabled>>
    /\ UNCHANGED dedupVars
    /\ UNCHANGED apiVars
    /\ UNCHANGED <<calcVars, appVars>>

\* the expiresAt of a new entry, line 177, without the lifetime
ExpiresAtNow(t) == t

\* Date.now() + LOCALSTORAGE_TTL_MS, line 177
ExpiresAt(t) == t + LOCALSTORAGE_TTL_MS

\* setLocalStorageCache(wardKey, data), lines 172-184. quota: setItem throws
\* QuotaExceededError. The eviction of line 174 has run by then; an unavailable
\* storage throws in getLocalStorageKeys, before anything is removed.
SetLocalStorageCache(key, data, quota) ==
    \E victim \in Victims(storage) :
        LET evicted == RemoveItem(storage, victim)
            entry == [data |-> data, expiresAt |-> ExpiresAt(now)]
        IN
        /\ storage' = IF storageDisabled THEN storage
                      ELSE IF quota THEN evicted
                      ELSE [evicted EXCEPT ![key] = JSONStringify(entry)]
        /\ durOp' = [op |-> "set", key |-> key, at |-> now,
                     wrote |-> ~storageDisabled /\ ~quota,
                     result |-> data, follows |-> -1,
                     removed |-> IF storageDisabled THEN {} ELSE {victim} \ {NoKey}]
        /\ UNCHANGED <<now, memoryCache, memOp, storageDisabled>>
        /\ UNCHANGED dedupVars
        /\ UNCHANGED apiVars
        /\ UNCHANGED <<calcVars, appVars>>

\* clearLocalStorageCache(), lines 187-190; an unavailable storage throws in
\* getLocalStorageKeys, before anything is removed
ClearLocalStorageCache ==
    /\ storage' = IF storageDisabled THEN storage
                  ELSE [k \in StorageKeys |->
                          IF k \in GetLocalStorageKeys(storage) THEN Null ELSE storage[k]]
    /\ durOp' = [op |-> "clear", key |-> NoKey, at |-> now, wrote |-> FALSE,
                 result |-> NullIntel, follows |-> -1,
                 removed |-> IF storageDisabled THEN {} ELSE GetLocalStorageKeys(storage)]
    /\ UNCHANGED <<now, memoryCache, memOp, storageDisabled>>
    /\ UNCHANGED dedupVars
    /\ UNCHANGED apiVars
    /\ UNCHANGED <<calcVars, appVars>>

\* JSON.stringify(trimmed), conversationService.ts:68: the text of an array
\* of messages
History == <<"[", "message", "]">>

\* saveConversationHistory(messages), conversationService.ts:65-72: the
\* history is stored under STORAGE_KEY; a failure of setItem is caught
SaveConversationHistory ==
    /\ storage' = IF storageDisabled THEN storage
                  ELSE [storage EXCEPT ![ConversationKey] = History]
    /\ durOp' = [op |-> "save", key |-> ConversationKey, at |-> now,
                 wrote |-> ~storageDisabled,
                 result |-> NullIntel, follows |-> -1, removed |-> {}]
    /\ UNCHANGED <<now, memoryCache, memOp, storageDisabled>>
    /\ UNCHANGED dedupVars
    /\ UNCHANGED apiVars
    /\ UNCHANGED <<calcVars, appVars>>

\* Something other than this module rewrites a stored cache entry (the storage
\* is shared with every script of the origin and outlives the page): the text
\* is cut short, or the object loses its expiresAt.
Corrupt(key) ==
    /\ ~storageDisabled
    /\ HasPrefix(key)
    /\ storage[key] # Null
    /\ JSONParse(storage[key]).ok /\ JSONParse(storage[key]).hasExpiresAt
    /\ \E raw \in {Garbage, WithoutExpiresAt} :
          storage' = [storage EXCEPT ![key] = raw]
    /\ durOp' = [op |-> "corrupt", key |-> key, at |-> now, wrote |-> FALSE,
                 result |-> NullIntel, follows |-> -1, removed |-> {}]
    /\ UNCHANGED <<now, memoryCache, memOp, storageDisabled>>
    /\ UNCHANGED dedupVars
    /\ UNCHANGED apiVars
    /\ UNCHANGED <<calcVars, appVars>>

\* the storage is empty at the start, available or not
InitDurable ==
    /\ IdleDedup
    /\ IdleMem
    /\ IdleApi
    /\ IdleCalc
    /\ IdleApp
    /\ storage = [k \in StorageKeys |-> Null]
    /\ storageDisabled \in BOOLEAN
    /\ durOp = [op |-> "none", key |-> NoKey, at |-> 0, wrote |-> FALSE,
                result |-> NullIntel, follows |-> -1, removed |-> {}]

NextDurable ==
    \/ Tick
    \/ \E key \in WardKeys : GetLocalStorageCache(key)
    \/ \E key \in WardKeys, quota \in BOOLEAN :
          SetLocalStorageCache(key, Intel(key, now), quota)
    \/ \E key \in WardKeys : Corrupt(key)
    \/ ClearLocalStorageCache
    \/ SaveConversationHistory

SpecDurable == InitDurable /\ [][NextDurable]_vars


\* a step of getLocalStorageCache, of setLocalStorageCache: the steps that
\* leave the clock alone and end with durOp naming the operation
DurableGetStep == durOp'.op = "get" /\ now' = now
DurableSetStep == durOp'.op = "set" /\ now' = now

\* C6: a getLocalStorageCache(wardKey) that follows a setLocalStorageCache(
\* wardKey, data) whose entry was stored returns a value equal to data in all
\* fields when less than LOCALSTORAGE_TTL_MS has passed since the write, and
\* returns a miss and leaves no entry for wardKey in the storage when more
\* than LOCALSTORAGE_TTL_MS has passed.
C6_DurableRoundTrip ==
    [][(/\ DurableGetStep
        /\ durOp.op = "set" /\ durOp.key = durOp'.key /\ durOp.wrote)
       => /\ now < durOp.at + LOCALSTORAGE_TTL_MS => durOp'.result = durOp.result
          /\ now > durOp.at + LOCALSTORAGE_TTL_MS
                => (durOp'.result = NullIntel /\ storage'[durOp'.key] = Null)]_vars

\* C6 witness: an entry written at one time is read back, equal to what was
\* written, at a later time within its lifetime.
C6_Witness ==
    /\ durOp.op = "get"
    /\ durOp.follows >= 0
    /\ durOp.follows < durOp.at
    /\ durOp.at < durOp.follows + LOCALSTORAGE_TTL_MS
    /\ durOp.result = Intel(durOp.key, durOp.follows)

\* C7 as stated: getLocalStorageCache reports a read failure and an
\* unparseable stored text as a miss, and the read removes the unparseable
\* entry from the storage.
C7_Original ==
    [][DurableGetStep =>
        /\ (storageDisabled \/ (storage[durOp'.key] # Null
                                 /\ ~JSONParse(storage[durOp'.key]).ok))
              => durOp'.result = NullIntel
        /\ (~storageDisabled /\ storage[durOp'.key] # Null
                             /\ ~JSONParse(storage[durOp'.key]).ok)
              => storage'[durOp'.key] = Null]_vars

\* C8 as stated: a setLocalStorageCache whose storage write fails leaves the
\* durable store as it was before the call.
C8_Original ==
    [][(DurableSetStep /\ ~durOp'.wrote) => storage' = storage]_vars

\* C9 as stated: the storage never holds more than LOCALSTORAGE_MAX_ENTRIES
\* cache entries, corrupt ones included.
C9_Original ==
    Cardinality(GetLocalStorageKeys(storage)) <= LOCALSTORAGE_MAX_ENTRIES


(***************************************************************************)
(* The query client: nearbySearch (multi-zone),                            *)
(* placesAPIService.ts:555-659.  A place is known by its id and by its     *)
(* distance in metres to the query centre, which is all that the radius    *)
(* filter of lines 635-643 reads of its location.                          *)
(***************************************************************************)

\* a record of the provider's response: it may carry no location
Raw(id, hasLocation, dist) == [id |-> id, hasLocation |-> hasLocation, dist |-> dist]

\* what the provider holds for each query and zone: places returned by
\* several zones, by two queries of one category, beyond the radius, on the
\* radius, and without a location
Provider(q, z) ==
    CASE q = "gym" ->
           CASE z = 1 -> <<Raw("g1", TRUE, 200), Raw("g2", TRUE, 900), Raw("g3", TRUE, 1200)>>
             [] z = 2 -> <<Raw("g1", TRUE, 200), Raw("g4", FALSE, 0)>>
             [] z = 3 -> <<Raw("g2", TRUE, 900)>>
             [] z = 5 -> <<Raw("g5", TRUE, 1000)>>
             [] OTHER -> <<>>
      [] q = "corporate_office" ->
           CASE z = 1 -> <<Raw("o1", TRUE, 300), Raw("hub_office", TRUE, 400)>>
             [] z = 2 -> <<Raw("o1", TRUE, 300)>>
             [] OTHER -> <<>>
      [] q = "coworking_space" ->
           CASE z = 1 -> <<Raw("hub_office", TRUE, 400), Raw("w1", TRUE, 700)>>
             [] z = 3 -> <<Raw("w1", TRUE, 700)>>
             [] OTHER -> <<>>
      [] q = "cafe" ->
           CASE z = 1 -> <<Raw("c1", TRUE, 100)>>
             [] z = 4 -> <<Raw("c2", TRUE, 950)>>
             [] OTHER -> <<>>
      [] q = "metro" ->
           CASE z = 1 -> <<Raw("interchange", TRUE, 500)>>
             [] z = 5 -> <<Raw("m1", TRUE, 800)>>
             [] OTHER -> <<>>
      [] q = "bus" ->
           CASE z = 1 -> <<Raw("interchange", TRUE, 500), Raw("b1", TRUE, 600)>>
             [] z = 2 -> <<Raw("b2", TRUE, 1100)>>
             [] OTHER -> <<>>
      [] q = "apartment" ->
           CASE z = 1 -> <<Raw("a1", TRUE, 250)>>
             [] z = 2 -> <<Raw("a2", TRUE, 650)>>
             [] z = 3 -> <<Raw("a3", FALSE, 0)>>
             [] OTHER -> <<>>
      [] q = "vibe_active" ->
           CASE z = 1 -> <<Raw("y1", TRUE, 450)>>
             [] OTHER -> <<>>
      [] OTHER ->
           CASE z = 1 -> <<Raw("e1", TRUE, 350)>>
             [] z = 3 -> <<Raw("e2", TRUE, 850), Raw("y1", TRUE, 450)>>
             [] OTHER -> <<>>

\* how the provider answers one request
Responses == {"ok", "http_error", "network_error"}

\* the distances from (0,0) to the query centre that are tried: within the
\* radius and far beyond it
Origins == {500, 8000000}

\* mapPlace, lines 570-583, for a query centre at the distance origin from
\* (0,0): a record without a location is placed at (0,0)
MapPlaceFrom(place, origin) ==
    [id |-> place.id, dist |-> IF place.hasLocation THEN place.dist ELSE origin]

MapPlace(place) == MapPlaceFrom(place, originDist)

MapPlaces(places) == [i \in 1..Len(places) |-> MapPlace(places[i])]

\* a fetchZone that lets a network failure escape
FetchZoneThrows(q, z, response) ==
    CASE response = "ok" -> [ok |-> TRUE, places |-> MapPlaces(Provider(q, z))]
      [] response = "http_error" -> [ok |-> TRUE, places |-> <<>>]
      [] OTHER -> [ok |-> FALSE, places |-> <<>>]

\* fetchZone, lines 585-618: a non-success response (605-610) and an exception
\* (614-617) both return [], so the promise of a zone always fulfils
FetchZone(q, z, response) ==
    IF response = "ok"
    THEN [ok |-> TRUE, places |-> MapPlaces(Provider(q, z))]
    ELSE [ok |-> TRUE, places |-> <<>>]

\* withinRadius, lines 635-643
WithinRadius(place) == place.dist <= RadiusMeters

IdsOf(places) == {places[i].id : i \in 1..Len(places)}

\* a loop that keeps every record
KeepAll(places, i, kept, radius) == places

\* the loop of lines 646-655 (radius = TRUE) and of lines 872-878
\* (radius = FALSE): the first record of each id is kept, in order
RECURSIVE UniqueFrom(_, _, _, _)
UniqueFrom(places, i, kept, radius) ==
    IF i > Len(places) THEN kept
    ELSE IF /\ places[i].id \notin IdsOf(kept)
            /\ (radius => WithinRadius(places[i]))
         THEN UniqueFrom(places, i + 1, Append(kept, places[i]), radius)
         ELSE UniqueFrom(places, i + 1, kept, radius)

\* nearbySearch, lines 620-658: Promise.all over the five zones, then the
\* deduplication and the radius filter over the zones' results in zone order
NearbySearch(q, responses) ==
    LET zoneResults == [z \in Zones |-> FetchZone(q, z, responses[z])]
        all == zoneResults[1].places \o zoneResults[2].places \o zoneResults[3].places
                 \o zoneResults[4].places \o zoneResults[5].places
    IN  IF \E z \in Zones : ~zoneResults[z].ok
        THEN [ok |-> FALSE, places |-> <<>>]
        ELSE [ok |-> TRUE, places |-> UniqueFrom(all, 1, <<>>, TRUE)]

\* the arguments SpecSearch calls nearbySearch with
SearchArgs == {"gym", "metro", "bus"}

RECURSIVE SumOver(_, _)
SumOver(f, S) ==
    IF S = {} THEN 0
    ELSE LET x == CHOOSE y \in S : TRUE
         IN  f[x] + SumOver(f, S \ {x})

\* a caller calls nearbySearch: the five requests of lines 624-632 are issued
CallNearbySearch(q) ==
    /\ search.status # "pending"
    /\ SumOver(completed, Queries) < MaxSearches
    /\ search' = [status |-> "pending", args |-> q,
                  zones |-> [z \in Zones |-> "pending"],
                  result |-> [ok |-> TRUE, places |-> <<>>]]
    /\ requests' = [requests EXCEPT ![q] = @ + Cardinality(Zones)]
    /\ UNCHANGED <<originDist, completed, intelCall>>
    /\ UNCHANGED dedupVars
    /\ UNCHANGED memVars
    /\ UNCHANGED durVars
    /\ UNCHANGED <<calcVars, appVars>>

\* the provider answers the request of one zone
ZoneResponds(z, response) ==
    /\ search.status = "pending"
    /\ search.zones[z] = "pending"
    /\ search' = [search EXCEPT !.zones[z] = response]
    /\ UNCHANGED <<originDist, requests, completed, intelCall>>
    /\ UNCHANGED dedupVars
    /\ UNCHANGED memVars
    /\ UNCHANGED durVars
    /\ UNCHANGED <<calcVars, appVars>>

\* Promise.all of line 632 settles and the call returns
NearbySearchReturns ==
    /\ search.status = "pending"
    /\ \A z \in Zones : search.zones[z] # "pending"
    /\ LET result == NearbySearch(search.args, search.zones)
       IN  search' = [search EXCEPT !.status = IF result.ok THEN "returned" ELSE "threw",
                                    !.result = result]
    /\ completed' = [completed EXCEPT ![search.args] = @ + 1]
    /\ UNCHANGED <<originDist, requests, intelCall>>
    /\ UNCHANGED dedupVars
    /\ UNCHANGED memVars
    /\ UNCHANGED durVars
    /\ UNCHANGED <<calcVars, appVars>>

InitSearch ==
    /\ IdleDedup
    /\ IdleMem
    /\ IdleDurable
    /\ originDist \in Origins
    /\ search = NoSearch
    /\ requests = [q \in Queries |-> 0]
    /\ completed = [q \in Queries |-> 0]
    /\ intelCall = [status |-> "idle", outcome |-> [q \in Queries |-> "unissued"],
                    report |-> NoReport]
    /\ IdleCalc
    /\ IdleApp

NextSearch ==
    \/ \E q \in SearchArgs : CallNearbySearch(q)
    \/ \E z \in Zones, response \in Responses : ZoneResponds(z, response)
    \/ NearbySearchReturns

SpecSearch == InitSearch /\ [][NextSearch]_vars

\* C3: two calls of nearbySearch with identical arguments within the memory
\* TTL (here at one and the same instant) issue exactly one provider request.
C3_Original ==
    \A q \in Queries : completed[q] >= 2 => requests[q] = 1


(***************************************************************************)
(* The aggregator: getLocationIntelligence,                                *)
(* placesAPIService.ts:855-995.  A nearbySearch call of the aggregator is  *)
(* one step here: the calls share no state, so what a call returns depends *)
(* on the responses to its own five requests only.                         *)
(***************************************************************************)

\* the queries of the first Promise.all, lines 864-898, and of the second,
\* lines 905-908
FirstBatch == {"gym", "corporate_office", "coworking_space", "cafe", "metro", "bus",
               "apartment"}
VibeBatch == {"vibe_active", "vibe_entertainment"}

\* the categories of the report, lines 966-994, and the queries of each
Categories == {"gyms", "corporateOffices", "cafesRestaurants", "transitStations",
               "apartments", "vibe"}

QueriesOf(category) ==
    CASE category = "gyms" -> {"gym"}
      [] category = "corporateOffices" -> {"corporate_office", "coworking_space"}
      [] category = "cafesRestaurants" -> {"cafe"}
      [] category = "transitStations" -> {"metro", "bus"}
      [] category = "apartments" -> {"apartment"}
      [] OTHER -> VibeBatch

\* what the provider does to the five requests of one query: it answers them
\* all; it answers none (non-success responses and network errors); it fails
\* the request of the centre zone only
Outcomes == {"ok", "failed", "partial"}

ResponsesOf(outcome) ==
    CASE outcome = "ok" -> [z \in Zones |-> "ok"]
      [] outcome = "failed" -> [z \in Zones |-> IF z <= 3 THEN "http_error"
                                                          ELSE "network_error"]
      [] OTHER -> [z \in Zones |-> IF z = 1 THEN "network_error" ELSE "ok"]

(***************************************************************************)
(* The classifications of getLocationIntelligence as functions of the      *)
(* counts, placesAPIService.ts:940-956.  The counts are small integers and *)
(* 0.8 * apartments is exact in double arithmetic whenever it decides a    *)
(* comparison, so the ratio is compared after multiplying by 10 * gyms.    *)
(***************************************************************************)

\* competitionLevel with exclusive upper bounds
CompetitionLevelExclusive(gyms) ==
    IF gyms = 0 THEN "LOW"
    ELSE IF gyms < 3 THEN "LOW"
    ELSE IF gyms < 6 THEN "MEDIUM"
    ELSE IF gyms < 10 THEN "HIGH"
    ELSE "VERY_HIGH"

\* marketGap without the test of line 953
MarketGapByRatioOnly(gyms, corporates, apartments) ==
    LET demandUnits10 == 10 * corporates + 8 * apartments
        supply == IF gyms > 0 THEN gyms ELSE 1
    IN  IF demandUnits10 > 4 * 10 * supply THEN "OPPORTUNITY"
        ELSE IF demandUnits10 > 2 * 10 * supply THEN "COMPETITIVE"
        ELSE "SATURATED"

\* marketGap as the earlier getLocationIntelligence computes it, lines
\* 412-421: demandScore = corporates + 0.5 * apartments, thresholds 3 and 1.5
MarketGapEarlier(gyms, corporates, apartments) ==
    LET demandScore10 == 10 * corporates + 5 * apartments
    IN  IF gyms = 0 THEN "UNTAPPED"
        ELSE IF demandScore10 > 30 * gyms THEN "OPPORTUNITY"
        ELSE IF demandScore10 > 15 * gyms THEN "COMPETITIVE"
        ELSE "SATURATED"

\* lines 941-946
CompetitionLevel(gyms) ==
    IF gyms = 0 THEN "LOW"
    ELSE IF gyms <= 3 THEN "LOW"
    ELSE IF gyms <= 6 THEN "MEDIUM"
    ELSE IF gyms <= 10 THEN "HIGH"
    ELSE "VERY_HIGH"

\* line 949, in tenths: demandUnits = corporates.length + apartments.length * 0.8
DemandUnits10(corporates, apartments) == 10 * corporates + 8 * apartments

\* lines 949-956: demandUnits = corporates + 0.8 * apartments and
\* ratio = demandUnits / gyms, compared here after multiplying by 10 * gyms
MarketGap(gyms, corporates, apartments) ==
    LET demandUnits10 == DemandUnits10(corporates, apartments)
    IN  IF gyms = 0 THEN "UNTAPPED"
        ELSE IF demandUnits10 > 4 * 10 * gyms THEN "OPPORTUNITY"
        ELSE IF demandUnits10 > 2 * 10 * gyms THEN "COMPETITIVE"
        ELSE "SATURATED"

\* the report of lines 966-994 from the lists the queries returned; the
\* corporates are merged by id (868-881), transit and vibe are concatenated
\* (901, 990)
LocationIntelligence(r) ==
    LET gyms == r["gym"]
        corporates == UniqueFrom(r["corporate_office"] \o r["coworking_space"],
                                 1, <<>>, FALSE)
        cafes == r["cafe"]
        transit == r["metro"] \o r["bus"]
        apartments == r["apartment"]
        vibeActive == r["vibe_active"]
        vibeEntertainment == r["vibe_entertainment"]
    IN  [gyms |-> [total |-> Len(gyms), places |-> gyms],
         corporateOffices |-> [total |-> Len(corporates), places |-> corporates],
         cafesRestaurants |-> [total |-> Len(cafes), places |-> cafes],
         transitStations |-> [total |-> Len(transit), places |-> transit],
         apartments |-> [total |-> Len(apartments), places |-> apartments],
         vibe |-> [total |-> Len(vibeActive) + Len(vibeEntertainment),
                   active |-> Len(vibeActive),
                   entertainment |-> Len(vibeEntertainment),
                   places |-> vibeActive \o vibeEntertainment],
         competitionLevel |-> CompetitionLevel(Len(gyms)),
         marketGap |-> MarketGap(Len(gyms), Len(corporates), Len(apartments))]

\* what the nearbySearch call of query q returned
Returned(q) == NearbySearch(q, ResponsesOf(intelCall.outcome[q]))

Issue(batch) ==
    /\ requests' = [q \in Queries |->
                      IF q \in batch THEN requests[q] + Cardinality(Zones)
                      ELSE requests[q]]

\* getLocationIntelligence is called: the seven calls of lines 864-898 are
\* made one after the other without awaiting any
GetLocationIntelligence ==
    /\ intelCall.status = "idle"
    /\ intelCall' = [intelCall EXCEPT
                       !.status = "first_batch",
                       !.outcome = [q \in Queries |->
                                      IF q \in FirstBatch THEN "pending" ELSE "unissued"]]
    /\ Issue(FirstBatch)
    /\ UNCHANGED <<originDist, search, completed>>
    /\ UNCHANGED dedupVars
    /\ UNCHANGED memVars
    /\ UNCHANGED durVars
    /\ UNCHANGED <<calcVars, appVars>>

\* the provider has answered the five requests of one query, one way or
\* the other, and the nearbySearch call settles
QuerySettles(q, outcome) ==
    /\ intelCall.status \in {"first_batch", "vibe_batch"}
    /\ intelCall.outcome[q] = "pending"
    /\ intelCall' = [intelCall EXCEPT !.outcome[q] = outcome]
    /\ completed' = [completed EXCEPT ![q] = @ + 1]
    /\ UNCHANGED <<originDist, search, requests>>
    /\ UNCHANGED dedupVars
    /\ UNCHANGED memVars
    /\ UNCHANGED durVars
    /\ UNCHANGED <<calcVars, appVars>>

Settled(batch) == \A q \in batch : intelCall.outcome[q] \in Outcomes
Rejected(batch) ==
    \E q \in batch : intelCall.outcome[q] \in Outcomes /\ ~Returned(q).ok

\* the await of line 864 resumes: Promise.all rejects with the first
\* rejection, else fulfils when all seven have; then lines 905-908 make the
\* two vibe calls
FirstBatchSettles ==
    /\ intelCall.status = "first_batch"
    /\ Settled(FirstBatch) \/ Rejected(FirstBatch)
    /\ IF Rejected(FirstBatch)
       THEN /\ intelCall' = [intelCall EXCEPT !.status = "rejected"]
            /\ UNCHANGED requests
       ELSE /\ intelCall' = [intelCall EXCEPT
                               !.status = "vibe_batch",
                               !.outcome = [q \in Queries |->
                                              IF q \in VibeBatch THEN "pending"
                                              ELSE intelCall.outcome[q]]]
            /\ Issue(VibeBatch)
    /\ UNCHANGED <<originDist, search, completed>>
    /\ UNCHANGED dedupVars
    /\ UNCHANGED memVars
    /\ UNCHANGED durVars
    /\ UNCHANGED <<calcVars, appVars>>

\* the await of line 905 resumes and lines 910-994 build the report
VibeBatchSettles ==
    /\ intelCall.status = "vibe_batch"
    /\ Settled(VibeBatch) \/ Rejected(VibeBatch)
    /\ IF Rejected(VibeBatch)
       THEN intelCall' = [intelCall EXCEPT !.status = "rejected"]
       ELSE intelCall' = [intelCall EXCEPT
                            !.status = "resolved",
                            !.report = LocationIntelligence(
                                           [q \in Queries |-> Returned(q).places])]
    /\ UNCHANGED <<originDist, search, requests, completed>>
    /\ UNCHANGED dedupVars
    /\ UNCHANGED memVars
    /\ UNCHANGED durVars
    /\ UNCHANGED <<calcVars, appVars>>

InitIntel == InitSearch

NextIntel ==
    \/ GetLocationIntelligence
    \/ \E q \in Queries, outcome \in Outcomes : QuerySettles(q, outcome)
    \/ FirstBatchSettles
    \/ VibeBatchSettles

SpecIntel == InitIntel /\ [][NextIntel]_vars

\* the report of a call during which the provider answers every request
NoFailure ==
    LocationIntelligence([q \in Queries |-> NearbySearch(q, ResponsesOf("ok")).places])

Resolved == intelCall.status = "resolved"
Empty(category) ==
    /\ intelCall.report[category].total = 0
    /\ intelCall.report[category].places = <<>>
AsWithoutFailure(category) == intelCall.report[category] = NoFailure[category]

\* C10, as stated: whatever queries the provider fails, the call resolves and
\* never rejects; every category with a failed query is reported with total 0
\* and no places, every other category as if nothing had failed.
C10_Original ==
    /\ intelCall.status # "rejected"
    /\ Resolved =>
         \A category \in Categories :
            IF \E q \in QueriesOf(category) : intelCall.outcome[q] # "ok"
            THEN Empty(category)
            ELSE AsWithoutFailure(category)

\* C10, amended: whatever requests the provider fails, the call resolves and
\* never rejects; a category all of whose requests failed is reported with
\* total 0 and no places, a category none of whose requests failed is reported
\* as if nothing had failed, and a category some of whose requests failed is
\* reported with places of the report without failure only.
C10_FailuresAbsorbed ==
    /\ intelCall.status # "rejected"
    /\ Resolved =>
         \A category \in Categories :
            /\ (\A q \in QueriesOf(category) : intelCall.outcome[q] = "failed")
                  => Empty(category)
            /\ (\A q \in QueriesOf(category) : intelCall.outcome[q] = "ok")
                  => AsWithoutFailure(category)
            /\ IdsOf(intelCall.report[category].places)
                  \subseteq IdsOf(NoFailure[category].places)

\* a call has resolved although the provider failed every request for gyms and
\* one of the two queries for corporates, and cafes are reported as ever
C10_Witness ==
    /\ Resolved
    /\ intelCall.outcome["gym"] = "failed"
    /\ Empty("gyms")
    /\ intelCall.outcome["corporate_office"] = "failed"
    /\ intelCall.outcome["coworking_space"] = "ok"
    /\ intelCall.report["corporateOffices"].total > 0
    /\ intelCall.outcome["cafe"] = "ok"
    /\ intelCall.report["cafesRestaurants"].total > 0
    /\ AsWithoutFailure("cafesRestaurants")


(***************************************************************************)
(* SpecClassify: the classifications applied to every combination of       *)
(* counts within the bounds.                                               *)
(***************************************************************************)

InitClassify ==
    /\ IdleDedup
    /\ IdleMem
    /\ IdleDurable
    /\ IdleApi
    /\ IdleApp
    /\ scored = [scorer |-> "none", input |-> <<>>, result |-> NoScores]
    /\ keyed = NoKeys
    /\ \E gyms \in 0..MaxGyms, corporates \in 0..MaxCorporates,
          apartments \in 0..MaxApartments :
          classified = [NoLabels EXCEPT !.gyms = gyms, !.corporates = corporates,
                                        !.apartments = apartments]

\* lines 940-956 applied to the counts
Classify ==
    /\ classified.competitionLevel = "none"
    /\ classified' = [classified EXCEPT
                        !.competitionLevel = CompetitionLevel(classified.gyms),
                        !.marketGap = MarketGap(classified.gyms, classified.corporates,
                                                classified.apartments)]
    /\ UNCHANGED <<scored, keyed>>
    /\ UNCHANGED dedupVars
    /\ UNCHANGED memVars
    /\ UNCHANGED durVars
    /\ UNCHANGED apiVars
    /\ UNCHANGED appVars

\* the headline of generateDataDrivenRecommendation(intel, scores), lines
\* 1001-1048: gap = scores?.competitorRatio ?? 0 (line 1006) selects it
GenerateDataDrivenRecommendation(intel, scores) ==
    LET gap == IF scores.given THEN scores.competitorRatio ELSE 0
    IN  IF gap >= 75 THEN "GOLD MINE"
        ELSE IF gap >= 55 THEN "HIGH POTENTIAL"
        ELSE IF gap >= 35 THEN "COMPETITIVE"
        ELSE "SATURATED"

\* the competitorRatio of realScores (part_001:745-749) for the classification
GapOf(marketGap) ==
    IF marketGap = "UNTAPPED" THEN 100
    ELSE IF marketGap = "OPPORTUNITY" THEN 75
    ELSE IF marketGap = "COMPETITIVE" THEN 50
    ELSE 25

\* the scores arguments of a call: left out, as performAnalysis
\* (part_001:814) and formatPlacesResults (chatOrchestrationService.ts:357)
\* call it, or the realScores of the report
ScoresArgs(intel) ==
    {Omitted, [given |-> TRUE, competitorRatio |-> GapOf(intel.marketGap)]}

\* a caller generates the recommendation for the classified report
Recommend ==
    /\ classified.competitionLevel # "none"
    /\ classified.headline = "none"
    /\ \E scores \in ScoresArgs(classified) :
          classified' = [classified EXCEPT
                            !.scores = scores,
                            !.headline = GenerateDataDrivenRecommendation(classified, scores)]
    /\ UNCHANGED <<scored, keyed>>
    /\ UNCHANGED dedupVars
    /\ UNCHANGED memVars
    /\ UNCHANGED durVars
    /\ UNCHANGED apiVars
    /\ UNCHANGED appVars

NextClassify ==
    \/ Classify
    \/ Recommend

SpecClassify == InitClassify /\ [][NextClassify]_vars

Classified == classified.competitionLevel # "none"

\* C11: competitionLevel depends on the gym count alone, with inclusive upper
\* bounds: up to 3 LOW, 4 to 6 MEDIUM, 7 to 10 HIGH, 11 and more VERY_HIGH.
C11_CompetitionLevel ==
    Classified =>
        /\ classified.gyms <= 3 <=> classified.competitionLevel = "LOW"
        /\ classified.gyms \in 4..6 <=> classified.competitionLevel = "MEDIUM"
        /\ classified.gyms \in 7..10 <=> classified.competitionLevel = "HIGH"
        /\ classified.gyms >= 11 <=> classified.competitionLevel = "VERY_HIGH"

\* ten gyms are classified, at the upper bound of HIGH
C11_Witness ==
    /\ classified.gyms = 10
    /\ classified.corporates > 0
    /\ classified.competitionLevel = "HIGH"

\* C12: marketGap is UNTAPPED exactly when there is no gym, whatever the
\* corporate and apartment counts.
C12_UntappedIffNoGym ==
    Classified => (classified.marketGap = "UNTAPPED" <=> classified.gyms = 0)

\* no gym and no demand either, classified UNTAPPED
C12_Witness ==
    /\ classified.gyms = 0
    /\ classified.corporates = 0
    /\ classified.apartments = 0
    /\ classified.marketGap = "UNTAPPED"

\* C13: with at least one gym, marketGap follows
\* ratio = (corporates + 0.8 * apartments) / gyms: above 4 OPPORTUNITY, above 2
\* up to 4 COMPETITIVE, up to 2 SATURATED.  (Fifths: 5 * ratio * gyms.)
C13_MarketGapByRatio ==
    (Classified /\ classified.gyms >= 1) =>
        LET demandFifths == 5 * classified.corporates + 4 * classified.apartments
            supplyFifths == 5 * classified.gyms
        IN  /\ demandFifths > 4 * supplyFifths => classified.marketGap = "OPPORTUNITY"
            /\ (demandFifths > 2 * supplyFifths /\ demandFifths <= 4 * supplyFifths)
                  => classified.marketGap = "COMPETITIVE"
            /\ demandFifths <= 2 * supplyFifths => classified.marketGap = "SATURATED"

\* twelve gyms, two corporates and three apartments are classified SATURATED
C13_Witness ==
    /\ classified.gyms = 12
    /\ classified.corporates = 2
    /\ classified.apartments = 3
    /\ classified.marketGap = "SATURATED"


(***************************************************************************)
(* The scorers.  Scores are kept in thousandths of a point, so that the    *)
(* products of the code are integers; Math.round is applied where the code *)
(* applies it.                                                             *)
(***************************************************************************)

Milli == 1000

Max(a, b) == IF a >= b THEN a ELSE b
Min(a, b) == IF a <= b THEN a ELSE b

\* a clamp that lets every value through
NoClamp(v) == v

\* clamp, geoService.ts:76 and part_001:168, on thousandths
Clamp(v) == Max(0, Min(100 * Milli, v))

\* Math.round of a value that is not negative, from thousandths to points
Round(v) == (v + 500) \div Milli

\* a score record as the scorers return it: every field rounded
\* (geoService.ts:86-92, part_001:213-219)
Scores(demo, conn, comp, infra, total) ==
    [demographicLoad |-> Round(demo), connectivity |-> Round(conn),
     competitorRatio |-> Round(comp), infrastructure |-> Round(infra),
     total |-> Round(total)]

\* the kinds of MOCK_LOCATIONS, types.ts:2-9
LocationTypes == {"gym", "synergy", "metro", "high_rise", "corporate", "park"}

\* the catchment radii the App offers, part_001:1490-1496, in metres
Radii == {500, 1000}

\* distances from the analysed point to a location, in hundredths of the
\* search radius: close by, just inside the radius, beyond 1.2 radii
Dists == {10, 99, 130}

\* the gyms of MOCK_LOCATIONS lie in clusters; the sampled cluster
GymCluster == 4

\* calculateSuitability, geoService.ts:21-93, for one location of each kind
\* (GymCluster gyms) at the distances in.dist
CalculateSuitability(in) ==
    LET x(type) == in.dist[type]
        considered(type) == ~(x(type) > 120)
        weight == IF in.radiusMeters < 1000 THEN 45 ELSE 30
        gymUnit == (in.radiusMeters * weight) \div 100
        competitorDensity ==
            IF considered("gym") /\ x("gym") < 100
            THEN GymCluster * (100 - x("gym")) * gymUnit ELSE 0
        corporate == IF considered("corporate") /\ x("corporate") < 100
                     THEN (100 - x("corporate")) * 1500 ELSE 0
        highRise == IF considered("high_rise") /\ x("high_rise") < 100
                    THEN (100 - x("high_rise")) * 1200 ELSE 0
        park == IF considered("park") /\ x("park") < 80
                THEN (80 - x("park")) * 1400 ELSE 0
        synergy == IF considered("synergy") /\ x("synergy") < 80
                   THEN (80 - x("synergy")) * 800 ELSE 0
        metro == IF considered("metro") /\ x("metro") < 150
                 THEN (150 - x("metro")) * 600 ELSE 0
        demographicLoad == 30 * Milli + corporate + highRise
        connectivity == 20 * Milli + metro
        infrastructure == 20 * Milli + park + synergy
        competitorRatio == Max(0, 100 * Milli - competitorDensity)
        finalDemo == Clamp(demographicLoad)
        finalConn == Clamp(connectivity)
        finalComp == Clamp(IF finalDemo > 80 * Milli THEN competitorRatio + 15 * Milli
                                                     ELSE competitorRatio)
        finalInfra == Clamp(infrastructure)
        total == (45 * finalDemo + 10 * finalConn + 25 * finalComp + 20 * finalInfra)
                    \div 100
    IN  Scores(finalDemo, finalConn, finalComp, finalInfra, total)

\* 1000 * Math.log1p(t / 10), rounded down, for the arguments that occur
Log1pMilli(t) ==
    IF t <= 60
    THEN <<0, 95, 182, 262, 336, 405, 470, 530, 587, 641, 693, 741, 788, 832, 875,
           916, 955, 993, 1029, 1064, 1098, 1131, 1163, 1193, 1223, 1252, 1280, 1308,
           1335, 1360, 1386, 1410, 1435, 1458, 1481, 1504, 1526, 1547, 1568, 1589,
           1609, 1629, 1648, 1667, 1686, 1704, 1722, 1740, 1757, 1774, 1791, 1808,
           1824, 1840, 1856, 1871, 1887, 1902, 1916, 1931, 1945>>[t + 1]
    ELSE CASE t = 80 -> 2197
           [] t = 100 -> 2397
           [] t = 150 -> 2772
           [] t = 300 -> 3433
           [] t = 400 -> 3713
           [] t = 1000 -> 4615

\* logNorm, part_001:170, of tenths / 10 against sat, in thousandths
LogNorm(tenths, sat) == (Log1pMilli(tenths) * 100 * Milli) \div Log1pMilli(10 * sat)

\* part_001:188, in tenths: demandUnits = aptCount + (corpCount * 0.8)
GapDemandUnits10(pois) == 10 * pois.apartments + 8 * pois.corporateOffices

\* calculateSuitabilityWithRealData, part_001:168-219, from the counts of
\* the POI lists fetchRealPOIData returned
CalculateSuitabilityWithRealData(pois) ==
    LET rawApt == LogNorm(10 * pois.apartments, 40)
        rawCorp == LogNorm(10 * pois.corporateOffices, 30)
        rawCafe == LogNorm(10 * pois.cafes, 30)
        rawDemand == Clamp((45 * rawApt + 35 * rawCorp + 20 * rawCafe) \div 100)
        gymPenalty1000 == (35 * LogNorm(10 * pois.gyms, 15)) \div 10000
        finalDemo == Clamp((rawDemand * (1000 - gymPenalty1000)) \div 1000)
        gapRatioTenths == GapDemandUnits10(pois) \div Max(pois.gyms, 1)
        finalGap == IF gapRatioTenths >= 50 THEN Clamp(100 * Milli)
                    ELSE Clamp(LogNorm(gapRatioTenths, 5))
        activeScore == LogNorm(10 * pois.vibeActive, 6)
        socialScore == LogNorm(10 * pois.vibeEntertainment, 8)
        finalVibe == Clamp((55 * activeScore + 45 * socialScore) \div 100)
        metroScore == LogNorm(10 * pois.metroStations, 5)
        busScore == (LogNorm(10 * pois.busStations, 10) * 6) \div 10
        finalConn == Clamp((65 * metroScore + 35 * busScore) \div 100)
        total == (40 * finalDemo + 30 * finalGap + 20 * finalVibe + 10 * finalConn)
                    \div 100
    IN  Scores(finalDemo, finalConn, finalGap, finalVibe, total)

\* realScores of performAnalysis, part_001:731-767, from the totals and the
\* marketGap of the report
RealScores(intel) ==
    LET demographicLoad == Min(100, 15 + intel.corporateOffices * 6
                                       + intel.apartments * 4
                                       + intel.cafesRestaurants * 2)
        connectivity == Min(100, 10 + intel.transitStations * 15)
        competitorRatio == GapOf(intel.marketGap)
        infrastructure == Min(100, 10 + intel.cafesRestaurants * 5)
    IN  [demographicLoad |-> demographicLoad, connectivity |-> connectivity,
         competitorRatio |-> competitorRatio, infrastructure |-> infrastructure,
         total |-> (30 * demographicLoad + 15 * connectivity + 30 * competitorRatio
                       + 25 * infrastructure + 50) \div 100]

\* the counts a list of places can have: a few, or the most that the five
\* zones of a search return (placesAPIService.ts:595)
PoiCounts == (0..MaxPois) \cup {Cardinality(Zones) * MaxResultCount}

Scorers == {"calculateSuitability", "calculateSuitabilityWithRealData", "performAnalysis"}

InputsOf(scorer) ==
    CASE scorer = "calculateSuitability" ->
           [radiusMeters : Radii, dist : [LocationTypes -> Dists]]
      [] scorer = "calculateSuitabilityWithRealData" ->
           [gyms : PoiCounts, apartments : PoiCounts, corporateOffices : PoiCounts,
            cafes : PoiCounts, vibeActive : 0..MaxPois, vibeEntertainment : 0..MaxPois,
            metroStations : 0..MaxPois, busStations : 0..MaxPois]
      [] OTHER ->
           {[corporateOffices |-> in.corporateOffices, apartments |-> in.apartments,
             cafesRestaurants |-> in.cafesRestaurants,
             transitStations |-> in.transitStations, gyms |-> in.gyms,
             marketGap |-> MarketGap(in.gyms, in.corporateOffices, in.apartments)] :
               in \in [gyms : PoiCounts, corporateOffices : PoiCounts,
                       apartments : PoiCounts, cafesRestaurants : PoiCounts,
                       transitStations : PoiCounts]}

ScoreOf(scorer, in) ==
    CASE scorer = "calculateSuitability" -> CalculateSuitability(in)
      [] scorer = "calculateSuitabilityWithRealData" -> CalculateSuitabilityWithRealData(in)
      [] OTHER -> RealScores(in)

InitScore ==
    /\ IdleDedup
    /\ IdleMem
    /\ IdleDurable
    /\ IdleApi
    /\ IdleApp
    /\ classified = NoLabels
    /\ keyed = NoKeys
    /\ \E scorer \in Scorers :
          \E in \in InputsOf(scorer) :
             scored = [scorer |-> scorer, input |-> in, result |-> NoScores]

\* the scorer is applied to its input
Score(scorer) ==
    /\ scored.scorer = scorer
    /\ scored.result = NoScores
    /\ scored' = [scored EXCEPT !.result = ScoreOf(scorer, scored.input)]
    /\ UNCHANGED <<classified, keyed>>
    /\ UNCHANGED dedupVars
    /\ UNCHANGED memVars
    /\ UNCHANGED durVars
    /\ UNCHANGED apiVars
    /\ UNCHANGED appVars

NextScore ==
    \/ Score("calculateSuitability")
    \/ Score("calculateSuitabilityWithRealData")
    \/ Score("performAnalysis")

SpecScore == InitScore /\ [][NextScore]_vars

Scored == scored.result # NoScores

\* C14: every field of every score record lies in [0,100].
C14_ScoresInRange ==
    Scored =>
        /\ scored.result.demographicLoad \in 0..100
        /\ scored.result.connectivity \in 0..100
        /\ scored.result.competitorRatio \in 0..100
        /\ scored.result.infrastructure \in 0..100
        /\ scored.result.total \in 0..100

\* a scorer has held the demand at 100 and the competitor score at 0
C14_Witness ==
    /\ Scored
    /\ scored.scorer = "calculateSuitability"
    /\ scored.input.dist["corporate"] = 10
    /\ scored.input.dist["gym"] = 10
    /\ scored.result.demographicLoad = 100
    /\ scored.result.competitorRatio = 15


SameFields(a, b) ==
    /\ a.demographicLoad = b.demographicLoad
    /\ a.connectivity = b.connectivity
    /\ a.competitorRatio = b.competitorRatio
    /\ a.infrastructure = b.infrastructure

C16_Original ==
    Scored =>
        scored.result.total =
            (30 * scored.result.demographicLoad + 30 * scored.result.competitorRatio
               + 25 * scored.result.infrastructure + 15 * scored.result.connectivity
               + 50) \div 100


\* C17: the queries of all categories are issued before the result of any is
\* awaited: from the moment the call awaits, no query is still to be issued.
C17_Original ==
    intelCall.status # "idle" =>
        \A q \in Queries : intelCall.outcome[q] # "unissued"

\* C18: a call that has completed has written its counts and labels to the
\* durable tier under a ward key (and nothing else is ever written there).
C18_Original ==
    Resolved =>
        \E key \in WardKeys :
            /\ storage[key] # Null
            /\ JSONParse(storage[key]).ok


(***************************************************************************)
(* The cache keys, placesCache.ts:64-80.  Coordinates are multiples of     *)
(* CoordUnit hundred-thousandths of a degree, a grid on which no           *)
(* coordinate lies exactly between two renderings of toFixed.              *)
(***************************************************************************)

CoordUnit == 4

RECURSIVE Pow10(_)
Pow10(k) == IF k = 0 THEN 1 ELSE 10 * Pow10(k - 1)

\* Number.prototype.toFixed(digits) of the coordinate v: the sign and the
\* digits of the nearest multiple of 10^-digits, the larger one of two
\* equally near ("-0.0000" and "0.0000" are different strings)
ToFixed(v, digits) ==
    LET magnitude == IF v < 0 THEN -v ELSE v
        scale == Pow10(5 - digits)
    IN  [negative |-> v < 0,
         n |-> (2 * magnitude * CoordUnit + scale) \div (2 * scale)]

\* buildCacheKey with the coordinates at two decimals
BuildCacheKeyCoarse(lat, lng, radiusMeters, placeTypes) ==
    <<ToFixed(lat, 2), ToFixed(lng, 2), radiusMeters, placeTypes>>

\* buildCacheKey, lines 65-75; the sorted, joined place types are kept as
\* the set of the types
BuildCacheKey(lat, lng, radiusMeters, placeTypes) ==
    <<ToFixed(lat, 4), ToFixed(lng, 4), radiusMeters, placeTypes>>

\* buildWardKey, lines 78-80
BuildWardKey(lat, lng, radiusMeters) ==
    <<"geo_intel_v1_", ToFixed(lat, 3), ToFixed(lng, 3), radiusMeters>>

Coords == (-MaxCoord)..MaxCoord
PlaceTypes == {{"gym"}, {"cafe", "coffee_shop"}}

InitKeys ==
    /\ IdleDedup
    /\ IdleMem
    /\ IdleDurable
    /\ IdleApi
    /\ IdleApp
    /\ classified = NoLabels
    /\ scored = [scorer |-> "none", input |-> <<>>, result |-> NoScores]
    /\ \E lat \in Coords, lng \in Coords, radiusMeters \in Radii,
          placeTypes \in PlaceTypes :
          keyed = [NoKeys EXCEPT !.lat = lat, !.lng = lng,
                                 !.radiusMeters = radiusMeters,
                                 !.placeTypes = placeTypes]

\* both keys are built for the search parameters
BuildKeys ==
    /\ keyed.cacheKey = <<>>
    /\ keyed' = [keyed EXCEPT
                   !.cacheKey = BuildCacheKey(keyed.lat, keyed.lng, keyed.radiusMeters,
                                              keyed.placeTypes),
                   !.wardKey = BuildWardKey(keyed.lat, keyed.lng, keyed.radiusMeters)]
    /\ UNCHANGED <<classified, scored>>
    /\ UNCHANGED dedupVars
    /\ UNCHANGED memVars
    /\ UNCHANGED durVars
    /\ UNCHANGED apiVars
    /\ UNCHANGED appVars

NextKeys == BuildKeys

SpecKeys == InitKeys /\ [][NextKeys]_vars

Keyed == keyed.cacheKey # <<>>

SameCacheKey(lat, lng) ==
    BuildCacheKey(lat, lng, keyed.radiusMeters, keyed.placeTypes) = keyed.cacheKey

\* C19, as stated: for one radius, coordinates with the same memory key have
\* the same ward key.
C19_Original ==
    Keyed =>
        \A lat \in Coords, lng \in Coords :
            SameCacheKey(lat, lng)
                => BuildWardKey(lat, lng, keyed.radiusMeters) = keyed.wardKey

\* C19, amended: for one radius, coordinates with the same memory key have
\* the same ward key except in a coordinate whose four decimals end in 5:
\* that memory bucket lies across the boundary of two ward buckets.
C19_WardKeyCoarser ==
    Keyed =>
        \A lat \in Coords, lng \in Coords :
            SameCacheKey(lat, lng) =>
                /\ ToFixed(lat, 3) # ToFixed(keyed.lat, 3)
                      => ToFixed(keyed.lat, 4).n % 10 = 5
                /\ ToFixed(lng, 3) # ToFixed(keyed.lng, 3)
                      => ToFixed(keyed.lng, 4).n % 10 = 5

\* the keys of latitude 0.00048 are built: 0.00052 has the same memory key
\* and another ward key, 0.00016 the same ward key and another memory key
C19_Witness ==
    /\ Keyed
    /\ keyed.lat = 12
    /\ SameCacheKey(13, keyed.lng)
    /\ BuildWardKey(13, keyed.lng, keyed.radiusMeters) # keyed.wardKey
    /\ ~SameCacheKey(4, keyed.lng)
    /\ BuildWardKey(4, keyed.lng, keyed.radiusMeters) = keyed.wardKey


(***************************************************************************)
(* The App component, part_001:453-833: the analyses it starts and what    *)
(* it displays.  Every selection of a position or a radius is numbered;    *)
(* scores, POIs and insight are known by the number of the selection they  *)
(* were computed for.                                                      *)
(***************************************************************************)

\* a new position or radius is selected (part_001:522-537, 1490-1496): the
\* effect of lines 698-702 displays the scores of calculateSuitability and
\* the effect of lines 829-833 calls performAnalysis, which runs up to its
\* await (lines 705-715)
Select ==
    /\ app.started < MaxAnalyses
    /\ LET id == app.started + 1
       IN  app' = [app EXCEPT
                     !.selected = id,
                     !.started = id,
                     !.outstanding = @ \cup {id},
                     !.isAnalyzing = TRUE,
                     !.scores = [of |-> id, kind |-> "calculateSuitability"],
                     !.aiInsight = [of |-> id, kind |-> "fetching"]]
    /\ UNCHANGED calcVars
    /\ UNCHANGED dedupVars
    /\ UNCHANGED memVars
    /\ UNCHANGED durVars
    /\ UNCHANGED apiVars

\* getLocationIntelligence resolves for the analysis id and performAnalysis
\* runs lines 717-817
AnalysisResolves(id) ==
    /\ id \in app.outstanding
    /\ app' = [app EXCEPT
                 !.outstanding = @ \ {id},
                 !.realPOIs = id,
                 !.scores = [of |-> id, kind |-> "realScores"],
                 !.aiInsight = [of |-> id, kind |-> "recommendation"],
                 !.isAnalyzing = FALSE]
    /\ UNCHANGED calcVars
    /\ UNCHANGED dedupVars
    /\ UNCHANGED memVars
    /\ UNCHANGED durVars
    /\ UNCHANGED apiVars

\* the try block of the analysis id throws and performAnalysis runs its catch,
\* lines 818-826, with the position and radius of its own closure
AnalysisFails(id) ==
    /\ id \in app.outstanding
    /\ app' = [app EXCEPT
                 !.outstanding = @ \ {id},
                 !.scores = [of |-> id, kind |-> "fallbackScores"],
                 !.aiInsight = [of |-> id, kind |-> "unavailable"],
                 !.isAnalyzing = FALSE]
    /\ UNCHANGED calcVars
    /\ UNCHANGED dedupVars
    /\ UNCHANGED memVars
    /\ UNCHANGED durVars
    /\ UNCHANGED apiVars

InitApp ==
    /\ IdleDedup
    /\ IdleMem
    /\ IdleDurable
    /\ IdleApi
    /\ IdleCalc
    /\ IdleApp

NextApp ==
    \/ Select
    \/ \E id \in 1..MaxAnalyses : AnalysisResolves(id)
    \/ \E id \in 1..MaxAnalyses : AnalysisFails(id)

SpecApp == InitApp /\ [][NextApp]_vars

\* C20: once every analysis has settled, the scores, the POIs and the
\* recommendation on display are those of the selection made last (the POIs
\* when its analysis has produced any).
C20_Original ==
    (app.selected # NoAnalysis /\ app.outstanding = {}) =>
        /\ app.scores.of = app.selected
        /\ app.aiInsight.of = app.selected
        /\ app.aiInsight.kind = "recommendation" => app.realPOIs = app.selected


SearchReturned == search.status = "returned"

\* the records without a location among those the provider delivered to
\* the search
LocationLess ==
    UNION {{Provider(search.args, z)[i] :
              i \in {j \in 1..Len(Provider(search.args, z)) :
                       ~Provider(search.args, z)[j].hasLocation}} :
           z \in {zone \in Zones : search.zones[zone] = "ok"}}

\* C21: whether a record without a location is kept does not depend on the
\* distance between (0,0) and the query centre: the search keeps it exactly
\* when it would keep it for any other position of the centre.
C21_Original ==
    SearchReturned =>
        \A place \in LocationLess : \A origin \in Origins :
            (place.id \in IdsOf(search.result.places))
                <=> WithinRadius(MapPlaceFrom(place, origin))

\* C22: the result of a search has no two records with one id and only
\* records within radiusMeters of the query centre, whatever the zones
\* answered.
C22_UniqueWithinRadius ==
    SearchReturned =>
        /\ \A i, j \in 1..Len(search.result.places) :
              search.result.places[i].id = search.result.places[j].id => i = j
        /\ \A i \in 1..Len(search.result.places) :
              search.result.places[i].dist <= RadiusMeters

\* a gym search has returned after zones delivered one gym twice and a gym
\* beyond the radius, and a zone failed
C22_Witness ==
    /\ SearchReturned
    /\ search.args = "gym"
    /\ search.zones[1] = "ok"
    /\ search.zones[2] = "ok"
    /\ search.zones[3] = "http_error"
    /\ search.zones[4] = "network_error"
    /\ Len(search.result.places) >= 2
    /\ "g3" \notin IdsOf(search.result.places)


\* C23: the gap index of the count-based scorer uses the ratio of marketGap:
\* for at least one gym, its demand units per gym equal
\* (corporates + 0.8 * apartments) / gyms.
C23_Original ==
    (/\ Scored
     /\ scored.scorer = "calculateSuitabilityWithRealData"
     /\ scored.input.gyms >= 1) =>
        GapDemandUnits10(scored.input) * scored.input.gyms
            = DemandUnits10(scored.input.corporateOffices, scored.input.apartments)
                 * Max(scored.input.gyms, 1)


\* C24: after any sequence of setMemoryCache, getMemoryCache and
\* clearMemoryCache the memory cache holds at most MEMORY_MAX_ENTRIES
\* entries.
C24_MemoryCap == Len(memoryCache) <= MEMORY_MAX_ENTRIES

\* a new key has been written into a cache that was full, and the cache is
\* full again
C24_Witness ==
    /\ memOp.op = "set"
    /\ memOp.size = MEMORY_MAX_ENTRIES
    /\ memOp.found = NoEntry
    /\ Len(memoryCache) = MEMORY_MAX_ENTRIES

\* C25: a setMemoryCache on a key the cache already holds only replaces that
\* key's entry: every key held before is held after, and the entries of the
\* other keys are as they were, also when the cache is full.
C25_Original ==
    [][(SetStep /\ memOp'.key \in MemKeysOf(memoryCache))
       => \A k \in MemKeysOf(memoryCache) :
             /\ k \in MemKeysOf(memoryCache')
             /\ k # memOp'.key
                   => MemEntry(memoryCache', k) = MemEntry(memoryCache, k)]_vars

\* the time at which a cached value was written (see Payload)
WrittenAt(data) == data % 10

\* C26: a hit never extends an entry's lifetime: getMemoryCache never returns
\* a value later than MEMORY_TTL_MS after the setMemoryCache that wrote it,
\* and a hit changes the entry's lastAccessed only, never its expiresAt.
C26_NoSlidingExpiry ==
    /\ []((memOp.op = "get" /\ memOp.result # Miss)
            => memOp.at <= WrittenAt(memOp.result) + MEMORY_TTL_MS)
    /\ [][(GetStep /\ memOp'.result # Miss)
            => LET entry == MemEntry(memoryCache, memOp'.key)
                   after == MemEntry(memoryCache', memOp'.key)
               IN  /\ after.expiresAt = entry.expiresAt
                   /\ after.data = entry.data
                   /\ after.key = entry.key]_vars

\* an entry was read with a hit, and read again with a hit at the last
\* instant of its lifetime
C26_Witness ==
    /\ memOp.op = "get"
    /\ memOp.result # Miss
    /\ memOp.found.lastAccessed > WrittenAt(memOp.result)
    /\ memOp.at = WrittenAt(memOp.result) + MEMORY_TTL_MS


\* C27: isAnalyzing is true in every state in which at least one
\* performAnalysis call is outstanding, also when analyses overlap and one of
\* them finishes, by success or by error, before the others.
C27_Original == app.outstanding # {} => app.isAnalyzing


\* C28: in every report no place id occurs twice in the places of one
\* category and the total of each category is the number of its distinct
\* places, for the merged categories corporates, transit and vibe too.
C28_Original ==
    Resolved =>
        \A category \in Categories :
            LET places == intelCall.report[category].places IN
            /\ \A i, j \in 1..Len(places) : places[i].id = places[j].id => i = j
            /\ intelCall.report[category].total = Cardinality(IdsOf(places))


\* C29: the headline of the recommendation agrees with the classification:
\* for a report without gyms (UNTAPPED) the recommendation never has the
\* SATURATED headline, also when the scores argument is left out.
C29_Original ==
    (/\ classified.headline # "none"
     /\ classified.gyms = 0
     /\ classified.marketGap = "UNTAPPED") =>
        classified.headline # "SATURATED"


\* a step of one of the operations of the durable cache
DurableCacheStep == durOp'.op \in {"get", "set", "clear"} /\ now' = now

\* C30: the operations of the durable cache on ward keys
\* (setLocalStorageCache with its eviction, getLocalStorageCache with its
\* removal of an expired entry, clearLocalStorageCache) never remove or modify
\* a storage entry whose key does not start with the cache prefix, such as the
\* stored conversation history.
C30_ForeignEntriesKept ==
    [][DurableCacheStep =>
        \A k \in StorageKeys \ WardKeys : storage'[k] = storage[k]]_vars

\* the cache was full when it was cleared, and the conversation history is
\* still stored
C30_Witness ==
    /\ durOp.op = "clear"
    /\ Cardinality(durOp.removed) = LOCALSTORAGE_MAX_ENTRIES
    /\ storage[ConversationKey] = History
    /\ \A k \in WardKeys : storage[k] = Null

====
